---- MODULE Spec2Model ----
(***************************************************************************)
(* Subscription billing backend (app.py, models.py, payment_service.py,    *)
(* dunning_service.py): the committed ledger, the request handlers that    *)
(* change it, the payment gateway stand-in and the notifications sent.     *)
(*                                                                         *)
(* Time is counted in ticks, TicksPerDay of them to a day, so that         *)
(* timedelta.days (whole days, rounded down) and two reads of the clock    *)
(* inside one handler are both visible.  Money is an exact integer amount; *)
(* a prorated amount is kept as the fraction the handler computes.         *)
(***************************************************************************)
EXTENDS Integers, Sequences, FiniteSets, TLC

VARIABLES
    clock,            \* the latest value datetime.utcnow() returned, in ticks
    customers,        \* table customer: row id |-> record
    payment_methods,  \* table payment_method
    subscriptions,    \* table subscription (committed rows)
    invoices,         \* table invoice (committed rows)
    in_flight,        \* create_subscription requests between their two commits
    outbox,           \* every send_email call, in order, with its result
    gateway,          \* mock_payment_gateway calls so far, by outcome
    served,           \* billing requests received so far, by route
    response          \* the last response of a billing route, with the
                      \* ids its request named

vars == <<clock, customers, payment_methods, subscriptions, invoices,
          in_flight, outbox, gateway, served, response>>

-----------------------------------------------------------------------------
\* Bounds of the model
TicksPerDay == 2
MaxRequests == 3

\* Program constants
CycleDays == 30
GraceDays == 7
RetryDays == 2

Emails == {"a@b.com"}
Cards == {<<4, 1, 1, 1, 1, 1, 1, 1>>}
Plans == {[plan_name |-> "Basic", price |-> 20, billing_interval |-> "monthly"],
          [plan_name |-> "Pro", price |-> 45, billing_interval |-> "yearly"]}
Amounts == {25}
Instants == {10, 29, 30, 31}
None == -1

-----------------------------------------------------------------------------
\* timedelta(days=n)
timedelta(n) == n * TicksPerDay

\* (later - earlier).days: whole days, rounded towards minus infinity
days(later, earlier) == (later - earlier) \div TicksPerDay

\* s[-4:]
Last4(s) == IF Len(s) <= 4 THEN s ELSE SubSeq(s, Len(s) - 3, Len(s))

\* Model.query.get_or_404(id): the row exists
Exists(table, id) == id \in DOMAIN table

\* Ids a request can name: those of the rows of the table, and one beyond.
Ids(table) == 1..(Len(table) + 1)

\* Billing requests received so far
Received == served.subscriptions + served.payments + served.cancels

\* datetime.utcnow(): the clock does not run backwards.  Handlers only store
\* the clock or compare it with a stored start_date, so days are counted from
\* day 0 and time is let pass before a cancellation, which arrives at once or
\* on a later day of Instants.  Handy is the time a handler may take between
\* two reads of the clock: none, or a tick that takes the clock off the
\* start of a day.
Arrivals(last) == {last} \cup {timedelta(d) : d \in {i \in Instants : timedelta(i) > last}}
Handy(last) == IF last % TicksPerDay = 0 THEN {last, last + 1} ELSE {last}

\* A response: the route, the HTTP status, and the row id and customer_id
\* the request named (0 where the route takes none).
Response(op, code, id, customer_id) ==
    [op |-> op, code |-> code, id |-> id, customer_id |-> customer_id]

Init ==
    /\ clock = 0
    /\ customers = <<>>
    /\ payment_methods = <<>>
    /\ subscriptions = <<>>
    /\ invoices = <<>>
    /\ in_flight = {}
    /\ outbox = <<>>
    /\ gateway = [success |-> 0, failed |-> 0]
    /\ served = [subscriptions |-> 0, payments |-> 0, cancels |-> 0]
    /\ response = Response("none", 0, 0, 0)

\* POST /api/customers.  A second customer with a stored email violates the
\* unique constraint: the commit raises and nothing is stored.
create_customer ==
    \E email \in Emails :
        /\ ~\E c \in DOMAIN customers : customers[c].email = email
        /\ customers' = Append(customers,
                [email |-> email, name |-> "", role |-> "user"])
        /\ UNCHANGED <<clock, payment_methods, subscriptions, invoices,
                       in_flight, outbox, gateway, served, response>>

\* POST /api/customers/<customer_id>/payment_methods.  An absent customer
\* is a 404 and nothing is stored.
add_payment_method ==
    \E customer_id \in DOMAIN customers, card \in Cards :
        \* a customer registers a card once
        /\ ~\E p \in DOMAIN payment_methods :
               /\ payment_methods[p].customer_id = customer_id
               /\ payment_methods[p].card_number = Last4(card)
        /\ payment_methods' = Append(payment_methods,
                [customer_id |-> customer_id,
                 card_number |-> Last4(card),
                 token |-> Len(payment_methods) + 1])
        /\ UNCHANGED <<clock, customers, subscriptions, invoices,
                       in_flight, outbox, gateway, served, response>>

-----------------------------------------------------------------------------
\* Notifications.  A note is one send_email call: amount / per is the money
\* figure put in the body, date the date put in the body, ref the invoice
\* number put in the subject, ok what send_email returned.
Note(to, subject, amount, per, date, ref, ok) ==
    [to |-> to, subject |-> subject, amount |-> amount, per |-> per,
     date |-> date, ref |-> ref, ok |-> ok]

\* app.send_email: the SMTP exchange succeeds or raises; either way the
\* function returns, with True or False.
send_email(to, subject, amount, per, date, ref, delivered) ==
    Note(to, subject, amount, per, date, ref, delivered)

\* dunning_service.send_email: prints and returns True.
dunning_send_email(to, subject, amount, per, date, ref) ==
    Note(to, subject, amount, per, date, ref, TRUE)

\* handle_failed_payment scheduling the retry for the next day
handle_failed_payment_Tomorrow(customer, payment_method, amount, now) ==
    << dunning_send_email(customer.email, "Payment Failed",
                          amount, 1, now + timedelta(1), 0) >>

\* dunning_service.handle_failed_payment: the notes it sends, given the clock.
handle_failed_payment(customer, payment_method, amount, now) ==
    LET retry_date == now + timedelta(RetryDays)
    IN  << dunning_send_email(customer.email, "Payment Failed",
                              amount, 1, retry_date, 0) >>

\* payment_service.mock_payment_gateway: random.random() < 0.7 or not
GatewayResults == {"success", "failed"}

\* process_payment trying a declined charge a second time
process_payment_Retry(calls, result) ==
    [calls EXCEPT ![result] = @ + (IF result = "failed" THEN 2 ELSE 1)]

\* payment_service.process_payment: one call of the gateway, counted by outcome
process_payment(calls, result) == [calls EXCEPT ![result] = @ + 1]

\* POST /api/payments
process_payment_route ==
    \E customer_id \in Ids(customers), payment_method_id \in Ids(payment_methods),
       amount \in Amounts, result \in GatewayResults :
        /\ Received < MaxRequests
        /\ served' = [served EXCEPT !.payments = @ + 1]
        /\ IF ~Exists(payment_methods, payment_method_id)
           THEN /\ response' = Response("process_payment", 404,
                                        payment_method_id, customer_id)
                /\ UNCHANGED <<gateway, outbox>>
           ELSE /\ gateway' = process_payment(gateway, result)
                /\ IF result = "success"
                   THEN /\ response' = Response("process_payment", 200,
                                                payment_method_id, customer_id)
                        /\ UNCHANGED outbox
                   ELSE IF ~Exists(customers, customer_id)
                   THEN /\ response' = Response("process_payment", 404,
                                                payment_method_id, customer_id)
                        /\ UNCHANGED outbox
                   ELSE /\ outbox' = outbox \o
                              handle_failed_payment(customers[customer_id],
                                  payment_methods[payment_method_id], amount, clock)
                        /\ response' = Response("process_payment", 400,
                                                payment_method_id, customer_id)
        /\ UNCHANGED <<clock, customers, payment_methods, subscriptions,
                       invoices, in_flight>>

-----------------------------------------------------------------------------
\* Subscription(...) as create_subscription builds it
NewSubscription(customer_id, plan_name, price, billing_interval, now) ==
    [customer_id |-> customer_id, plan_name |-> plan_name, price |-> price,
     billing_interval |-> billing_interval, start_date |-> now,
     end_date |-> None, status |-> "active"]

\* POST /api/subscriptions, up to the commit of the subscription row
create_subscription ==
    \E customer_id \in Ids(customers), plan \in Plans :
        /\ Received < MaxRequests
        /\ served' = [served EXCEPT !.subscriptions = @ + 1]
        /\ IF ~Exists(customers, customer_id)
           THEN /\ response' = Response("create_subscription", 404, 0, customer_id)
                /\ UNCHANGED <<subscriptions, in_flight>>
           ELSE /\ subscriptions' = Append(subscriptions,
                        NewSubscription(customer_id, plan.plan_name, plan.price,
                                        plan.billing_interval, clock))
                /\ in_flight' = in_flight \cup
                        {[subscription_id |-> Len(subscriptions) + 1,
                          customer_id |-> customer_id, amount |-> plan.price]}
                /\ UNCHANGED response
        /\ UNCHANGED <<clock, customers, payment_methods, invoices, outbox, gateway>>

\* generate_invoice leaving the grace period out
NewInvoice_NoGrace(customer_id, subscription_id, amount, now) ==
    [customer_id |-> customer_id, subscription_id |-> subscription_id,
     amount |-> amount, status |-> "pending", due_date |-> now]

\* generate_invoice marking the invoice paid as it creates it
NewInvoice_Paid(customer_id, subscription_id, amount, now) ==
    [customer_id |-> customer_id, subscription_id |-> subscription_id,
     amount |-> amount, status |-> "paid",
     due_date |-> now + timedelta(GraceDays)]

\* Invoice(...) as generate_invoice builds it
NewInvoice(customer_id, subscription_id, amount, now) ==
    [customer_id |-> customer_id, subscription_id |-> subscription_id,
     amount |-> amount, status |-> "pending",
     due_date |-> now + timedelta(GraceDays)]

\* generate_invoice and the rest of create_subscription: the second commit,
\* the invoice email, the 201 response
generate_invoice ==
    \E r \in in_flight, delivered \in BOOLEAN, now \in Handy(clock) :
        LET invoice == NewInvoice(r.customer_id, r.subscription_id, r.amount, now)
            id == Len(invoices) + 1
        IN  /\ clock' = now
            /\ invoices' = Append(invoices, invoice)
            /\ outbox' = Append(outbox,
                    send_email(customers[r.customer_id].email, "Invoice",
                               r.amount, 1, invoice.due_date, id, delivered))
            /\ in_flight' = in_flight \ {r}
            /\ response' = Response("create_subscription", 201,
                                     r.subscription_id, r.customer_id)
            /\ UNCHANGED <<customers, payment_methods, subscriptions,
                           gateway, served>>

\* days_remaining = 30 - (datetime.utcnow() - subscription.start_date).days
DaysRemaining(now, start_date) == CycleDays - days(now, start_date)

\* prorated_amount = (days_remaining / 30) * subscription.price, as a fraction
ProratedAmount(days_remaining, price) ==
    [amount |-> days_remaining * price, per |-> CycleDays]

\* cancel_subscription setting the status and forgetting end_date
Canceled_StatusOnly(subscription, now) ==
    [subscription EXCEPT !.status = "canceled"]

\* the subscription row cancel_subscription commits
Canceled(subscription, now) ==
    [subscription EXCEPT !.status = "canceled", !.end_date = now]

\* cancel_subscription giving the cancellation up when the email fails
Committed_IfDelivered(before, after, notes) ==
    IF \E n \in DOMAIN notes : ~notes[n].ok THEN before ELSE after

\* db.session.commit() at the end of cancel_subscription: the row that is in
\* the ledger when the handler returns, given the row before, the row as the
\* handler changed it and the notes sent on the way
Committed(before, after, notes) == after

\* cancel_subscription refunding on the last day of the cycle too
RefundNotes_Inclusive(subscription, customer, now, delivered) ==
    LET days_remaining == DaysRemaining(now, subscription.start_date)
        prorated_amount == ProratedAmount(days_remaining, subscription.price)
    IN  IF days_remaining >= 0
        THEN << send_email(customer.email, "Subscription Canceled",
                           prorated_amount.amount, prorated_amount.per,
                           None, 0, delivered) >>
        ELSE << >>

\* cancel_subscription refunding the first cancellation only
RefundNotes_Once(subscription, customer, now, delivered) ==
    LET days_remaining == DaysRemaining(now, subscription.start_date)
        prorated_amount == ProratedAmount(days_remaining, subscription.price)
    IN  IF days_remaining > 0 /\ subscription.status # "canceled"
        THEN << send_email(customer.email, "Subscription Canceled",
                           prorated_amount.amount, prorated_amount.per,
                           None, 0, delivered) >>
        ELSE << >>

\* the notes cancel_subscription sends
RefundNotes(subscription, customer, now, delivered) ==
    LET days_remaining == DaysRemaining(now, subscription.start_date)
        prorated_amount == ProratedAmount(days_remaining, subscription.price)
    IN  IF days_remaining > 0
        THEN << send_email(customer.email, "Subscription Canceled",
                           prorated_amount.amount, prorated_amount.per,
                           None, 0, delivered) >>
        ELSE << >>

\* POST /api/subscriptions/<subscription_id>/cancel.  The clock is read twice:
\* now for end_date, later for days_remaining.
cancel_subscription ==
    \E subscription_id \in Ids(subscriptions), now \in Arrivals(clock),
       delivered \in BOOLEAN :
      \E later \in Handy(now) :
        /\ Received < MaxRequests
        /\ served' = [served EXCEPT !.cancels = @ + 1]
        /\ IF ~Exists(subscriptions, subscription_id)
           THEN /\ response' = Response("cancel_subscription", 404,
                                        subscription_id, 0)
                /\ UNCHANGED <<clock, subscriptions, outbox>>
           ELSE LET subscription == subscriptions[subscription_id]
                    customer == customers[subscription.customer_id]
                    notes == RefundNotes(subscription, customer, later, delivered)
                IN  /\ clock' = later
                    /\ outbox' = outbox \o notes
                    /\ subscriptions' = [subscriptions EXCEPT
                           ![subscription_id] =
                               Committed(subscription,
                                         Canceled(subscription, now), notes)]
                    /\ response' = Response("cancel_subscription", 200,
                                            subscription_id, 0)
        /\ UNCHANGED <<customers, payment_methods, invoices, in_flight, gateway>>

-----------------------------------------------------------------------------
Next ==
    \/ create_customer
    \/ add_payment_method
    \/ process_payment_route
    \/ create_subscription
    \/ generate_invoice
    \/ cancel_subscription

Spec == Init /\ [][Next]_vars

-----------------------------------------------------------------------------
\* What the properties below speak of

\* the invoices of a table that reference subscription s
InvoicesIn(table, s) == {i \in DOMAIN table : table[i].subscription_id = s}
InvoicesOf(s) == InvoicesIn(invoices, s)

\* the create_subscription call that stored subscription s has not returned
PendingIn(calls, s) == \E r \in calls : r.subscription_id = s
Pending(s) == PendingIn(in_flight, s)

\* the notes with a given subject
NotesAbout(subject) == {n \in DOMAIN outbox : outbox[n].subject = subject}

\* gateway authorization attempts so far
Attempts == gateway.success + gateway.failed

\* a step that sends exactly one note, and the note
SendsOne == Len(outbox') = Len(outbox) + 1 /\ SubSeq(outbox', 1, Len(outbox)) = outbox
Sent == outbox'[Len(outbox')]

\* a step that serves a cancellation of a subscription of the ledger
CancelStep ==
    /\ served'.cancels = served.cancels + 1
    /\ response'.id \in DOMAIN subscriptions

\* a step that serves a payment request
PaymentStep == served'.payments = served.payments + 1

\* the ledger: the four tables
ledger == <<customers, payment_methods, subscriptions, invoices>>

\* e whole days lie between the start and the clock as the step leaves it
Elapsed(e, start_date) ==
    /\ e * TicksPerDay <= clock' - start_date
    /\ clock' - start_date < (e + 1) * TicksPerDay

-----------------------------------------------------------------------------
C2_EndDateIffCanceled ==
    \A s \in DOMAIN subscriptions :
        (subscriptions[s].end_date # None) <=> (subscriptions[s].status = "canceled")

\* C2 witness: a canceled subscription beside an active one
C2_Witness ==
    \E s, t \in DOMAIN subscriptions :
        /\ subscriptions[s].status = "canceled" /\ subscriptions[s].end_date # None
        /\ subscriptions[t].status = "active" /\ subscriptions[t].end_date = None

\* C3: a cancellation of an existing subscription returns 200 with the row
\* canceled and end_date a clock reading of this request, whether a note was
\* sent or not and whatever send_email returned.
C3_CancelAlwaysPersists ==
    [][ CancelStep =>
            LET row == subscriptions'[response'.id]
            IN  /\ response'.code = 200
                /\ row.status = "canceled"
                /\ clock <= row.end_date /\ row.end_date <= clock'
      ]_vars

\* C3 witness: a canceled subscription whose refund note failed to go out,
\* and one canceled after the cycle was over
C3_Witness ==
    /\ \E n \in NotesAbout("Subscription Canceled") : ~outbox[n].ok
    /\ \E s \in DOMAIN subscriptions :
           /\ subscriptions[s].status = "canceled"
           /\ subscriptions[s].end_date > subscriptions[s].start_date + 30 * TicksPerDay

\* C4: a cancellation sends one refund note if and only if days_remaining > 0,
\* days_remaining being 30 minus the whole days from start_date to the clock;
\* the note carries (days_remaining / 30) x price.  After 30 days no note,
\* after 29 days (1/30) x price, after 10 days (20/30) x price.
C4_RefundIffDaysRemaining ==
    [][ CancelStep =>
            LET sub == subscriptions[response'.id]
            IN  \E e \in 0..clock' :
                    /\ Elapsed(e, sub.start_date)
                    /\ IF 30 - e > 0
                       THEN /\ SendsOne
                            /\ Sent.subject = "Subscription Canceled"
                            /\ Sent.to = customers[sub.customer_id].email
                            /\ Sent.amount * 30 = (30 - e) * sub.price * Sent.per
                            /\ e = 29 => Sent.amount * 30 = sub.price * Sent.per
                            /\ e = 10 => Sent.amount * 30 = 20 * sub.price * Sent.per
                       ELSE outbox' = outbox
                    /\ e = 30 => outbox' = outbox
      ]_vars

\* C4 witness: a yearly subscription canceled after 10 days and again after 29
C4_Witness ==
    /\ Len(subscriptions) = 1
    /\ subscriptions[1].billing_interval = "yearly"
    /\ served.cancels = 2
    /\ \E n, m \in NotesAbout("Subscription Canceled") :
           /\ outbox[n].amount * 30 = 20 * subscriptions[1].price * outbox[n].per
           /\ outbox[m].amount * 30 = subscriptions[1].price * outbox[m].per

\* C5: a call of handle_failed_payment sends exactly one note, to the
\* customer the request named, saying the payment failed and naming the retry
\* date, the clock plus 2 days; the route then returns its 400.
C5_OneDunningNote ==
    [][ /\ PaymentStep
        /\ gateway'.failed = gateway.failed + 1
        /\ response'.customer_id \in DOMAIN customers
        =>  /\ SendsOne
            /\ Sent.to = customers[response'.customer_id].email
            /\ Sent.subject = "Payment Failed"
            /\ Sent.date = clock' + 2 * TicksPerDay
            /\ Sent.amount \in Amounts /\ Sent.per = 1
            /\ Sent.ok
            /\ response'.code = 400
      ]_vars

\* C5 witness: a declined payment, some days on, answered with a dunning note
C5_Witness ==
    /\ response.op = "process_payment" /\ response.code = 400
    /\ clock > 0
    /\ outbox # <<>>
    /\ outbox[Len(outbox)].subject = "Payment Failed"
    /\ outbox[Len(outbox)].date = clock + 2 * TicksPerDay

\* C6 (as claimed): handle_failed_payment has run once for every declined
\* authorization attempt and never for another.
C6_DunningPerDecline ==
    Cardinality(NotesAbout("Payment Failed")) = gateway.failed

\* C7 (as claimed): a payment request leaves the ledger as it was and makes
\* exactly one authorization attempt.
C7_OneAttemptPerRequest ==
    [][ PaymentStep =>
            /\ ledger' = ledger
            /\ Attempts' = Attempts + 1
      ]_vars

\* C7 (amended): a payment request leaves the ledger as it was; it makes
\* exactly one authorization attempt when its payment method exists, and none
\* (a 404) when it does not.
C7_LedgerUntouchedOneAttempt ==
    [][ PaymentStep =>
            /\ ledger' = ledger
            /\ in_flight' = in_flight
            /\ IF response'.id \in DOMAIN payment_methods
               THEN Attempts' = Attempts + 1
               ELSE Attempts' = Attempts /\ response'.code = 404
      ]_vars

\* C7 witness: a declined payment served with a subscription and its invoice
\* in the ledger
C7_Witness ==
    /\ response.op = "process_payment"
    /\ response.id \in DOMAIN payment_methods
    /\ gateway.failed = 1 /\ served.payments = 1
    /\ subscriptions # <<>> /\ invoices # <<>>

\* C8: every invoice in the ledger has status pending.
C8_InvoicesStayPending ==
    \A i \in DOMAIN invoices : invoices[i].status = "pending"

\* C8 witness: an invoice after a successful payment and a cancellation
C8_Witness ==
    /\ invoices # <<>>
    /\ gateway.success >= 1
    /\ \E s \in DOMAIN subscriptions : subscriptions[s].status = "canceled"

\* C9: a cancellation of a subscription that is already canceled returns 200,
\* leaves it canceled, sets end_date to a clock reading of this request,
\* keeps start_date, and sends a further refund note, prorated from the
\* original start_date, whenever fewer than 30 whole days have gone by.
C9_CancelAgain ==
    [][ CancelStep /\ subscriptions[response'.id].status = "canceled" =>
            LET old == subscriptions[response'.id]
                row == subscriptions'[response'.id]
            IN  /\ response'.code = 200
                /\ row.status = "canceled"
                /\ row.start_date = old.start_date
                /\ clock <= row.end_date /\ row.end_date <= clock'
                /\ \E e \in 0..clock' :
                       /\ Elapsed(e, old.start_date)
                       /\ Len(outbox') = Len(outbox) + (IF e < 30 THEN 1 ELSE 0)
                       /\ e < 30 =>
                              Sent.amount * 30 = (30 - e) * old.price * Sent.per
      ]_vars

\* C9 witness: one subscription canceled twice within 30 days, with two
\* refund notes of different amounts and end_date the later time
C9_Witness ==
    /\ Len(subscriptions) = 1
    /\ served.cancels = 2
    /\ subscriptions[1].status = "canceled"
    /\ subscriptions[1].end_date >= subscriptions[1].start_date + 10 * TicksPerDay
    /\ \E n, m \in NotesAbout("Subscription Canceled") :
           n # m /\ outbox[n].amount > outbox[m].amount

\* C10 (as claimed): no state of the ledger shows a committed subscription
\* without its invoice.
C10_NoPartialCreate ==
    \A s \in DOMAIN subscriptions : InvoicesOf(s) # {}
====
